---- MODULE Spec2Model ----
(***************************************************************************)
(* A model of project_dumper.py: the classifier (looks_like_schema_file,   *)
(* is_large, is_ignored), the tree builder (generate_tree over os.walk)    *)
(* and the report writer (main).                                           *)
(*                                                                         *)
(* Strings are TLA+ strings; a path is the sequence of its pathlib parts   *)
(* (an absolute path has "/" as its first part).  The file system is a     *)
(* function from parts to the entry found there.                           *)
(***************************************************************************)
EXTENDS Integers, Sequences, FiniteSets, TLC

VARIABLES
    fs,               \* the file system: parts |-> [kind, st_size, stat_ok]
    project_path,     \* main: Path(project_dir_input), as parts
    output_filename,  \* main: the output file name, as typed (or the default)
    pc,               \* position of main / of the classifier driver
    stack,            \* os.walk: directories (strings) still to be yielded
    tree_lines,       \* generate_tree: the rendered lines
    line_of,          \* ghost: for each tree line, the parts of the entry it renders
    files_to_dump,    \* generate_tree: kept files, as parts
    schema_files,     \* generate_tree: schema-like kept files, as parts
    visited,          \* ghost: the directories os.walk yielded in this run, as parts
    classified,       \* ghost: the paths is_ignored was asked about in this run
    report,           \* main: the FILE sections this run has written so far
    dump_i,           \* main: index of the next file of files_to_dump to read
    runs,             \* number of runs of main started
    arg,              \* classifier driver: the path handed to the classifier
    verdict           \* classifier driver: what the classifier answered

vars == <<fs, project_path, output_filename, pc, stack, tree_lines, line_of,
          files_to_dump, schema_files, visited, classified, report, dump_i, runs, arg, verdict>>

-----------------------------------------------------------------------------
(* Configuration tables, lines 6-56 of the source.                         *)

IGNORED_DIRS ==
    { ".git", "__pycache__", "node_modules", "venv", ".venv",
      ".idea", ".vscode", "build", "dist", "docs",
      ".parcel-cache", ".cache", ".next", ".husky", ".pnpm-store",
      "coverage", "tmp", "temp", ".terraform" }

IGNORED_EXTENSIONS ==
    { ".pyc", ".pyo", ".pyd", ".so", ".dll", ".exe",
      ".png", ".jpg", ".jpeg", ".gif", ".bmp", ".tiff", ".ico",
      ".svg", ".webp", ".avif",
      ".zip", ".tar", ".gz", ".rar", ".7z",
      ".pdf",
      ".doc", ".docx", ".xls", ".xlsx", ".ppt", ".pptx",
      ".db", ".sqlite", ".sqlite3",
      ".lock", ".log",
      ".parquet", ".h5", ".hdf5", ".pt", ".onnx", ".tif",
      ".shp", ".dbf", ".nc" }

IGNORED_FILENAMES ==
    { "yarn.lock", "pnpm-lock.yaml", "package-lock.json",
      ".DS_Store", ".env", ".env.local", ".env.production", ".env.development",
      ".python-version", ".tool-versions" }

MAX_FILE_SIZE_BYTES == 2 * 1024 * 1024

ALLOWED_CODE_EXTENSIONS ==
    { ".py", ".ts", ".tsx", ".js", ".jsx", ".java", ".kt", ".go",
      ".rs", ".rb", ".php", ".c", ".cc", ".cpp", ".h", ".hpp",
      ".cs", ".sql", ".yml", ".yaml", ".toml", ".ini", ".cfg",
      ".prisma", ".graphql", ".gql", ".md" }

SCHEMA_HINT_DIRS ==
    { "prisma", "migrations", "migration", "db", "database",
      "sql", "schema", "alembic", "migrate", "migrations_sql", "liquibase", "flyway" }

SCHEMA_HINT_NAMES ==
    { "schema.prisma", "schema.sql", "init.sql", "migration.sql",
      "migration", "migrations", "entities", "models", "alembic.ini",
      "seeder", "seed.sql", "DDL.sql" }

\* line 81
ORM_SEGMENTS == { "entities", "entity", "models", "model" }

\* line 82
ORM_EXTENSIONS == { ".ts", ".js", ".tsx", ".jsx", ".py", ".rb", ".java", ".kt" }

\* line 112
BULK_DATA_EXTENSIONS == { ".csv", ".json", ".jsonl", ".ndjson", ".geojson" }

\* line 174
DEFAULT_OUTPUT == "project_dump.txt"

\* os.sep on the platform the model describes (POSIX)
SEP == "/"

-----------------------------------------------------------------------------
(* String primitives the source uses (str and pathlib), computed character *)
(* by character.                                                           *)

Ch(s, i) == SubSeq(s, i, i)

UPPERCASE == "ABCDEFGHIJKLMNOPQRSTUVWXYZ"
LOWERCASE == "abcdefghijklmnopqrstuvwxyz"

\* the characters of the model's names, in code point order (for sorted())
CODE_POINTS == "-./0123456789ABCDEFGHIJKLMNOPQRSTUVWXYZ_abcdefghijklmnopqrstuvwxyz"

lower_char(c) ==
    IF \E i \in 1..Len(UPPERCASE) : Ch(UPPERCASE, i) = c
    THEN Ch(LOWERCASE, CHOOSE i \in 1..Len(UPPERCASE) : Ch(UPPERCASE, i) = c)
    ELSE c

RECURSIVE lower(_)
\* str.lower()
lower(s) == IF Len(s) = 0 THEN "" ELSE lower(SubSeq(s, 1, Len(s) - 1)) \o lower_char(Ch(s, Len(s)))

\* `key in name` on strings
contains(key, name) ==
    \E i \in 1..(Len(name) - Len(key) + 1) : SubSeq(name, i, i + Len(key) - 1) = key

\* str.rfind("."), 1-based; 0 when there is none
rfind_dot(name) ==
    IF \E i \in 1..Len(name) : Ch(name, i) = "."
    THEN CHOOSE i \in 1..Len(name) :
            Ch(name, i) = "." /\ \A j \in (i + 1)..Len(name) : Ch(name, j) # "."
    ELSE 0

\* PurePath.name: the last part, "" for the root and for "."
path_name(path) ==
    IF Len(path) = 0 \/ path[Len(path)] = SEP THEN "" ELSE path[Len(path)]

\* PurePath.suffix: from the last dot of the name, unless that dot is the
\* first or the last character of the name
path_suffix(path) ==
    LET name == path_name(path)
        i == rfind_dot(name)
    IN  IF 1 < i /\ i < Len(name) THEN SubSeq(name, i, Len(name)) ELSE ""

RECURSIVE split_sep(_, _)
\* str.split(os.sep): cur is the piece being read
split_sep(s, cur) ==
    IF Len(s) = 0 THEN <<cur>>
    ELSE IF Ch(s, 1) = SEP THEN <<cur>> \o split_sep(SubSeq(s, 2, Len(s)), "")
    ELSE split_sep(SubSeq(s, 2, Len(s)), cur \o Ch(s, 1))

\* Path(s).parts: a leading separator is the root part; empty pieces and "."
\* pieces are dropped (".." is kept)
Path(s) ==
    LET pieces == SelectSeq(split_sep(s, ""), LAMBDA p : p # "" /\ p # ".")
    IN  IF Len(s) > 0 /\ Ch(s, 1) = SEP THEN <<SEP>> \o pieces ELSE pieces

RECURSIVE join_parts(_)
join_parts(parts) ==
    IF Len(parts) = 0 THEN ""
    ELSE IF Len(parts) = 1 THEN parts[1]
    ELSE parts[1] \o SEP \o join_parts(Tail(parts))

\* str(path)
path_str(path) ==
    IF Len(path) = 0 THEN "."
    ELSE IF path[1] = SEP THEN SEP \o join_parts(Tail(path))
    ELSE join_parts(path)

\* path / other, with other a string: an absolute other replaces path
path_join(path, other) ==
    IF Len(other) > 0 /\ Ch(other, 1) = SEP THEN Path(other) ELSE path \o Path(other)

\* os.path.join(root, name) for a name without separators
os_path_join(root, name) ==
    IF Len(root) > 0 /\ Ch(root, Len(root)) = SEP THEN root \o name ELSE root \o SEP \o name

\* os.path.basename: what follows the last separator
os_path_basename(s) ==
    LET pieces == split_sep(s, "") IN pieces[Len(pieces)]

RECURSIVE str_replace(_, _)
\* s.replace(old, ""): every non-overlapping occurrence, left to right
str_replace(s, old) ==
    IF Len(old) = 0 \/ Len(s) < Len(old) THEN s
    ELSE IF SubSeq(s, 1, Len(old)) = old THEN str_replace(SubSeq(s, Len(old) + 1, Len(s)), old)
    ELSE Ch(s, 1) \o str_replace(SubSeq(s, 2, Len(s)), old)

\* s.count(os.sep)
count_sep(s) == Cardinality({ i \in 1..Len(s) : Ch(s, i) = SEP })

code_point(c) == CHOOSE i \in 1..Len(CODE_POINTS) : Ch(CODE_POINTS, i) = c

RECURSIVE str_less(_, _)
\* a < b on strings (code point order), as sorted() compares
str_less(a, b) ==
    IF Len(b) = 0 THEN FALSE
    ELSE IF Len(a) = 0 THEN TRUE
    ELSE IF Ch(a, 1) = Ch(b, 1) THEN str_less(SubSeq(a, 2, Len(a)), SubSeq(b, 2, Len(b)))
    ELSE code_point(Ch(a, 1)) < code_point(Ch(b, 1))

RECURSIVE sorted(_)
\* sorted(files) for a set of distinct names
sorted(names) ==
    IF names = {} THEN <<>>
    ELSE LET m == CHOOSE x \in names : \A y \in names \ {x} : str_less(x, y)
         IN  <<m>> \o sorted(names \ {m})

Range(s) == { s[i] : i \in 1..Len(s) }

-----------------------------------------------------------------------------
(* File system primitives.                                                 *)

\* Path.is_file()
is_file(path) == path \in DOMAIN fs /\ fs[path].kind = "file"

\* Path.is_dir()
is_dir(path) == path \in DOMAIN fs /\ fs[path].kind = "dir"

-----------------------------------------------------------------------------
(* The classifier.                                                         *)

\* looks_like_schema_file comparing the suffix without lower()
looks_like_schema_file_case_sensitive(path) ==
    LET name == lower(path_name(path))
        parts == { lower(p) : p \in Range(path) }
    IN  IF parts \cap SCHEMA_HINT_DIRS # {} THEN TRUE
        ELSE IF \E key \in SCHEMA_HINT_NAMES : contains(key, name) THEN TRUE
        ELSE IF path_suffix(path) = ".sql" THEN TRUE
        ELSE IF path_suffix(path) = ".prisma" THEN TRUE
        ELSE IF \E seg \in ORM_SEGMENTS : seg \in parts
             THEN lower(path_suffix(path)) \in ORM_EXTENSIONS
        ELSE FALSE

looks_like_schema_file(path) ==
    LET name == lower(path_name(path))
        parts == { lower(p) : p \in Range(path) }
    IN  IF parts \cap SCHEMA_HINT_DIRS # {} THEN TRUE
        ELSE IF \E key \in SCHEMA_HINT_NAMES : contains(key, name) THEN TRUE
        ELSE IF lower(path_suffix(path)) = ".sql" THEN TRUE
        ELSE IF lower(path_suffix(path)) = ".prisma" THEN TRUE
        ELSE IF \E seg \in ORM_SEGMENTS : seg \in parts
             THEN lower(path_suffix(path)) \in ORM_EXTENSIONS
        ELSE FALSE

\* is_large with >= for >
is_large_inclusive(path) ==
    IF path \in DOMAIN fs /\ fs[path].stat_ok
    THEN fs[path].st_size >= MAX_FILE_SIZE_BYTES
    ELSE FALSE

\* path.stat().st_size > MAX_FILE_SIZE_BYTES, False when stat() raises
is_large(path) ==
    IF path \in DOMAIN fs /\ fs[path].stat_ok
    THEN fs[path].st_size > MAX_FILE_SIZE_BYTES
    ELSE FALSE

\* is_ignored with the schema exemption moved before the size check
is_ignored_schema_first(path, out) ==
    IF path_name(path) = out THEN TRUE
    ELSE IF path_name(path) \in IGNORED_FILENAMES THEN TRUE
    ELSE IF \E part \in Range(path) : part \in IGNORED_DIRS THEN TRUE
    ELSE IF is_file(path) /\ looks_like_schema_file(path) THEN FALSE
    ELSE IF is_file(path) /\ is_large(path) THEN TRUE
    ELSE IF /\ lower(path_suffix(path)) \in BULK_DATA_EXTENSIONS
            /\ (~looks_like_schema_file(path) \/ is_large(path)) THEN TRUE
    ELSE IF is_file(path) /\ lower(path_suffix(path)) \notin ALLOWED_CODE_EXTENSIONS THEN TRUE
    ELSE IF lower(path_suffix(path)) \in IGNORED_EXTENSIONS THEN TRUE
    ELSE FALSE

\* is_ignored with the ignored-extension check moved before the schema exemption
is_ignored_extension_first(path, out) ==
    IF path_name(path) = out THEN TRUE
    ELSE IF path_name(path) \in IGNORED_FILENAMES THEN TRUE
    ELSE IF \E part \in Range(path) : part \in IGNORED_DIRS THEN TRUE
    ELSE IF is_file(path) /\ is_large(path) THEN TRUE
    ELSE IF /\ lower(path_suffix(path)) \in BULK_DATA_EXTENSIONS
            /\ (~looks_like_schema_file(path) \/ is_large(path)) THEN TRUE
    ELSE IF lower(path_suffix(path)) \in IGNORED_EXTENSIONS THEN TRUE
    ELSE IF is_file(path) /\ looks_like_schema_file(path) THEN FALSE
    ELSE IF is_file(path) /\ lower(path_suffix(path)) \notin ALLOWED_CODE_EXTENSIONS THEN TRUE
    ELSE FALSE

is_ignored(path, out) ==
    IF path_name(path) = out THEN TRUE
    ELSE IF path_name(path) \in IGNORED_FILENAMES THEN TRUE
    ELSE IF \E part \in Range(path) : part \in IGNORED_DIRS THEN TRUE
    ELSE IF is_file(path) /\ is_large(path) THEN TRUE
    ELSE IF /\ lower(path_suffix(path)) \in BULK_DATA_EXTENSIONS
            /\ (~looks_like_schema_file(path) \/ is_large(path)) THEN TRUE
    ELSE IF is_file(path) /\ looks_like_schema_file(path) THEN FALSE
    ELSE IF is_file(path) /\ lower(path_suffix(path)) \notin ALLOWED_CODE_EXTENSIONS THEN TRUE
    ELSE IF lower(path_suffix(path)) \in IGNORED_EXTENSIONS THEN TRUE
    ELSE FALSE

-----------------------------------------------------------------------------
(* The tree builder: generate_tree, one os.walk yield per step.            *)

\* line 142 and line 150: spaces per level
INDENT_WIDTH == 4

\* stand-ins for the three marks of the tree text (folder, page, cabinet)
DIR_MARK == "dir"
FILE_MARK == "file"
SCHEMA_MARK == "schema"

\* names of the entries of kind k directly inside the directory with parts d
listdir(d, k) ==
    { p[Len(p)] : p \in { q \in DOMAIN fs : /\ Len(q) = Len(d) + 1
                                            /\ SubSeq(q, 1, Len(d)) = d
                                            /\ fs[q].kind = k } }

\* the subdirectories when dirs is rebound (dirs = ...) instead of assigned in place
kept_dirs_unpruned(root, out) == listdir(Path(root), "dir")

\* line 139: the subdirectories os.walk is left with
kept_dirs(root, out) ==
    { d \in listdir(Path(root), "dir") : ~is_ignored(path_join(Path(root), d), out) }

\* line 141
level_of(root, root_path) == count_sep(str_replace(root, path_str(root_path)))

\* lines 145-148: the line of the directory, if one is rendered
dir_lines(root, root_path) ==
    LET level == level_of(root, root_path)
        dir_name == os_path_basename(root)
    IN  IF (level > 0 \/ root = path_str(root_path)) /\ dir_name # ""
        THEN << [indent |-> INDENT_WIDTH * level, mark |-> DIR_MARK, text |-> dir_name \o "/"] >>
        ELSE << >>

\* keep_file with the schema list filled before the ignore check
keep_file_schema_before_ignore(acc, root, f, out) ==
    LET file_path == path_join(Path(root), f)
        sub_indent == INDENT_WIDTH * (level_of(root, project_path) + 1)
        schema == looks_like_schema_file(file_path)
        mark == IF schema THEN SCHEMA_MARK ELSE FILE_MARK
        listed == IF schema THEN Append(acc.schema, file_path) ELSE acc.schema
    IN  IF ~is_ignored(file_path, out)
        THEN [ lines  |-> Append(acc.lines, [indent |-> sub_indent, mark |-> mark, text |-> f]),
               owner  |-> Append(acc.owner, file_path),
               files  |-> Append(acc.files, file_path),
               schema |-> listed ]
        ELSE [acc EXCEPT !.schema = listed]

\* lines 152-159: one iteration of the loop over the files; acc holds the
\* three accumulators (and the ghost line_of)
keep_file(acc, root, f, out) ==
    LET file_path == path_join(Path(root), f)
        sub_indent == INDENT_WIDTH * (level_of(root, project_path) + 1)
        schema == looks_like_schema_file(file_path)
        mark == IF schema THEN SCHEMA_MARK ELSE FILE_MARK
    IN  IF ~is_ignored(file_path, out)
        THEN [ lines  |-> Append(acc.lines, [indent |-> sub_indent, mark |-> mark, text |-> f]),
               owner  |-> Append(acc.owner, file_path),
               files  |-> Append(acc.files, file_path),
               schema |-> IF schema THEN Append(acc.schema, file_path) ELSE acc.schema ]
        ELSE acc

RECURSIVE keep_files(_, _, _, _)
\* line 151: for f in sorted(files)
keep_files(acc, root, names, out) ==
    IF Len(names) = 0 THEN acc
    ELSE keep_files(keep_file(acc, root, Head(names), out), root, Tail(names), out)

\* the orders in which scandir may list a set of names
orders(names) ==
    { s \in [1..Cardinality(names) -> names] : \A i, j \in DOMAIN s : s[i] = s[j] => i = j }

\* Path.relative_to(project_path) for a path below it
relative_to(path, root_path) == SubSeq(path, Len(root_path) + 1, Len(path))

-----------------------------------------------------------------------------
(* main: the prompts, the traversal, the report.                           *)

\* line 174
chosen_output(output_filename_input) ==
    IF output_filename_input # "" THEN output_filename_input ELSE DEFAULT_OUTPUT

\* line 183
output_path == path_join(project_path, output_filename)

\* open(output_path, "w") succeeds when the parent is a directory and the
\* target is not one
can_open(path) ==
    /\ Len(path) > 0
    /\ is_dir(SubSeq(path, 1, Len(path) - 1))
    /\ ~is_dir(path)

\* the read not wrapped in its own try: the outer handler (line 221) ends the run
on_read_error_propagates == "error"

\* lines 209-210: where the loop goes after a read raised
on_read_error == "dump"

\* lines 203-210: the section written for one file
section(file_path, read_ok) ==
    [ header |-> relative_to(file_path, project_path),
      body   |-> IF read_ok THEN "content" ELSE "[Could not read file]" ]

-----------------------------------------------------------------------------
(* The worlds the program is run in.                                       *)

\* most files of a tree, besides the scenario tree of the end-to-end test
MaxFiles == 2

\* runs of main over the same root
MaxRuns == 2

\* most directory segments of a path handed to the classifier driver
MaxDirs == 1

File(size, ok) == [kind |-> "file", st_size |-> size, stat_ok |-> ok]
Dir == [kind |-> "dir", st_size |-> 0, stat_ok |-> TRUE]

\* what the user may type at the first prompt
RootInputs == { "proj", ".", "/app", "/tmp/proj" }

\* what the user may type at the second prompt
OutputInputs == { "", "./dump.md", "out/dump.md" }

\* files a tree may hold, relative to its root, with their sizes
FileUniverse ==
    { [rel |-> <<"migrations", "001_init.sql">>, size |-> 10],
      [rel |-> <<"src", "app.py">>, size |-> 20],
      [rel |-> <<"node_modules", "pkg", "index.js">>, size |-> 30],
      [rel |-> <<"image.png">>, size |-> 40],
      [rel |-> <<"data.json">>, size |-> 100],
      [rel |-> <<"big.sql">>, size |-> MAX_FILE_SIZE_BYTES + 1],
      [rel |-> <<"app", "pkg", "mod.py">>, size |-> 50],
      [rel |-> <<"models", "user.py">>, size |-> 60] }

\* the tree of the end-to-end scenario
ScenarioFiles ==
    { f \in FileUniverse : f.rel \in { <<"migrations", "001_init.sql">>, <<"src", "app.py">>,
                                        <<"node_modules", "pkg", "index.js">>, <<"image.png">> } }

Trees == { t \in SUBSET FileUniverse : Cardinality(t) <= MaxFiles } \cup { ScenarioFiles }

\* the file system holding the tree t at the root with parts r
tree_fs(r, t) ==
    LET dirs == {r} \cup UNION { { r \o SubSeq(f.rel, 1, n) : n \in 0..(Len(f.rel) - 1) } : f \in t }
        files == { r \o f.rel : f \in t }
        size(p) == (CHOOSE f \in t : r \o f.rel = p).size
    IN  [ p \in dirs \cup files |-> IF p \in files THEN File(size(p), TRUE) ELSE Dir ]

-----------------------------------------------------------------------------
(* Actions of main.                                                        *)

Init ==
    /\ \E r \in RootInputs, t \in Trees : fs = tree_fs(Path(r), t)
    /\ project_path = << >>
    /\ output_filename = ""
    /\ pc = "prompt"
    /\ stack = << >>
    /\ tree_lines = << >>
    /\ line_of = << >>
    /\ files_to_dump = << >>
    /\ schema_files = << >>
    /\ visited = {}
    /\ classified = {}
    /\ report = << >>
    /\ dump_i = 0
    /\ runs = 0
    /\ arg = << >>
    /\ verdict = [ignored |-> FALSE, schema |-> FALSE]

\* lines 165-182: both prompts answered, generate_tree entered
Prompt(project_dir_input, output_filename_input) ==
    /\ pc = "prompt"
    /\ is_dir(Path(project_dir_input))
    /\ project_path' = Path(project_dir_input)
    /\ output_filename' = chosen_output(output_filename_input)
    /\ stack' = << path_str(Path(project_dir_input)) >>
    /\ runs' = 1
    /\ pc' = "walk"
    /\ UNCHANGED <<fs, tree_lines, line_of, files_to_dump, schema_files, visited,
                   classified, report, dump_i, arg, verdict>>

\* lines 137-159: the body of the loop for the next directory os.walk yields
WalkStep ==
    /\ pc = "walk"
    /\ stack # << >>
    /\ LET root == Head(stack)
           kept == kept_dirs(root, output_filename)
           head == dir_lines(root, project_path)
           acc0 == [ lines  |-> tree_lines \o head,
                     owner  |-> line_of \o [i \in 1..Len(head) |-> Path(root)],
                     files  |-> files_to_dump,
                     schema |-> schema_files ]
           acc == keep_files(acc0, root, sorted(listdir(Path(root), "file")), output_filename)
       IN  /\ \E order \in orders(kept) :
                stack' = [i \in 1..Len(order) |-> os_path_join(root, order[i])] \o Tail(stack)
           /\ tree_lines' = acc.lines
           /\ line_of' = acc.owner
           /\ files_to_dump' = acc.files
           /\ schema_files' = acc.schema
           /\ visited' = visited \cup { Path(root) }
           /\ classified' = classified \cup
                  { path_join(Path(root), n) :
                        n \in listdir(Path(root), "dir") \cup listdir(Path(root), "file") }
    /\ UNCHANGED <<fs, project_path, output_filename, pc, report, dump_i, runs, arg, verdict>>

\* line 161: os.walk is exhausted, generate_tree returns
WalkReturn ==
    /\ pc = "walk"
    /\ stack = << >>
    /\ pc' = "open"
    /\ UNCHANGED <<fs, project_path, output_filename, stack, tree_lines, line_of, files_to_dump,
                   schema_files, visited, classified, report, dump_i, runs, arg, verdict>>

\* lines 185-200: the output file is created (or truncated), the tree and the
\* schema list are written.  The modelled trees keep files of at most 100
\* bytes, so the report is small.
OpenOutput ==
    /\ pc = "open"
    /\ can_open(output_path)
    /\ fs' = [ p \in DOMAIN fs \cup {output_path} |->
                 IF p = output_path THEN File(100, TRUE) ELSE fs[p] ]
    /\ report' = << >>
    /\ dump_i' = 1
    /\ pc' = "dump"
    /\ UNCHANGED <<project_path, output_filename, stack, tree_lines, line_of, files_to_dump,
                   schema_files, visited, classified, runs, arg, verdict>>

\* lines 185 and 221-222: open raises, the outer handler ends the run
OpenFails ==
    /\ pc = "open"
    /\ ~can_open(output_path)
    /\ pc' = "error"
    /\ UNCHANGED <<fs, project_path, output_filename, stack, tree_lines, line_of, files_to_dump,
                   schema_files, visited, classified, report, dump_i, runs, arg, verdict>>

\* lines 201-210: one iteration of the loop over files_to_dump; the read
\* succeeds or raises
DumpFile ==
    /\ pc = "dump"
    /\ dump_i <= Len(files_to_dump)
    /\ \E read_ok \in BOOLEAN :
          /\ report' = Append(report, section(files_to_dump[dump_i], read_ok))
          /\ pc' = IF read_ok THEN "dump" ELSE on_read_error
    /\ dump_i' = dump_i + 1
    /\ UNCHANGED <<fs, project_path, output_filename, stack, tree_lines, line_of, files_to_dump,
                   schema_files, visited, classified, runs, arg, verdict>>

\* lines 212-219: the loop is over, the file is closed, the summary printed
Finish ==
    /\ pc = "dump"
    /\ dump_i > Len(files_to_dump)
    /\ pc' = "done"
    /\ UNCHANGED <<fs, project_path, output_filename, stack, tree_lines, line_of, files_to_dump,
                   schema_files, visited, classified, report, dump_i, runs, arg, verdict>>

\* the tool is started again on the same root with the same output file name
Rerun ==
    /\ pc = "done"
    /\ runs < MaxRuns
    /\ runs' = runs + 1
    /\ stack' = << path_str(project_path) >>
    /\ tree_lines' = << >>
    /\ line_of' = << >>
    /\ files_to_dump' = << >>
    /\ schema_files' = << >>
    /\ visited' = {}
    /\ classified' = {}
    /\ report' = << >>
    /\ dump_i' = 0
    /\ pc' = "walk"
    /\ UNCHANGED <<fs, project_path, output_filename, arg, verdict>>

Next ==
    \/ \E r \in RootInputs, o \in OutputInputs : Prompt(r, o)
    \/ WalkStep
    \/ WalkReturn
    \/ OpenOutput
    \/ OpenFails
    \/ DumpFile
    \/ Finish
    \/ Rerun

Spec == Init /\ [][Next]_vars

-----------------------------------------------------------------------------
(* The classifier applied to single paths.                                 *)

ClassifierSegments == { "src", "migrations", "node_modules", "models", "Build", "DB" }

ClassifierNames ==
    { "a.sql", "A.SQL", "client.prisma", ".sql", "data.json", "models.json", "rows.CSV",
      "app.py", "image.png", "x.lock", "yarn.lock", "notes.txt", "user_migration.ts", "README" }

ClassifierSizes == { 100, MAX_FILE_SIZE_BYTES, MAX_FILE_SIZE_BYTES + 1 }

ClassifierOutputs == { DEFAULT_OUTPUT, "a.sql", "README" }

ClassifierDirs ==
    UNION { [1..n -> ClassifierSegments] : n \in 0..MaxDirs }

ClassifierEntries ==
    { File(s, ok) : s \in ClassifierSizes, ok \in BOOLEAN } \cup { Dir }

InitClassifier ==
    /\ \E d \in ClassifierDirs, n \in ClassifierNames :
          /\ arg = d \o <<n>>
          /\ \/ fs = << >>
             \/ \E e \in ClassifierEntries : fs = [ p \in { d \o <<n>> } |-> e ]
    /\ output_filename \in ClassifierOutputs
    /\ pc = "classify"
    /\ verdict = [ignored |-> FALSE, schema |-> FALSE]
    /\ project_path = << >>
    /\ stack = << >>
    /\ tree_lines = << >>
    /\ line_of = << >>
    /\ files_to_dump = << >>
    /\ schema_files = << >>
    /\ visited = {}
    /\ classified = {}
    /\ report = << >>
    /\ dump_i = 0
    /\ runs = 0

\* is_ignored and looks_like_schema_file asked about arg
Classify ==
    /\ pc = "classify"
    /\ verdict' = [ignored |-> is_ignored(arg, output_filename),
                   schema  |-> looks_like_schema_file(arg)]
    /\ pc' = "classified"
    /\ UNCHANGED <<fs, project_path, output_filename, stack, tree_lines, line_of, files_to_dump,
                   schema_files, visited, classified, report, dump_i, runs, arg>>

NextClassifier == Classify

SpecClassifier == InitClassifier /\ [][NextClassifier]_vars

-----------------------------------------------------------------------------
(* Properties of the classifier, checked under SpecClassifier.             *)

asked == pc = "classified"
suffix_of_arg == lower(path_suffix(arg))
has_ignored_segment(path) == \E part \in Range(path) : part \in IGNORED_DIRS
larger_than_limit(path) ==
    path \in DOMAIN fs /\ fs[path].stat_ok /\ fs[path].st_size > MAX_FILE_SIZE_BYTES

\* C1 as stated: every path whose extension is .sql or .prisma (in any
\* case) is schema-like and is not ignored, whatever its size, its location
\* and the output file name.
C1_SqlPrismaNeverIgnored ==
    (asked /\ suffix_of_arg \in {".sql", ".prisma"})
        => (verdict.schema /\ ~verdict.ignored)

\* C1 amended: every path whose extension is .sql or .prisma (in any case)
\* is schema-like, and it is ignored exactly when its name is the output
\* file name, one of its segments is an ignored-directory name, or it is an
\* existing file larger than 2 MiB.
C1_SqlPrismaKeptUnlessOverridden ==
    (asked /\ suffix_of_arg \in {".sql", ".prisma"})
        => /\ verdict.schema
           /\ verdict.ignored <=> \/ path_name(arg) = output_filename
                                  \/ has_ignored_segment(arg)
                                  \/ (is_file(arg) /\ larger_than_limit(arg))

\* an upper-case .SQL file, 2 MiB or less, outside ignored directories, kept
C1_Witness ==
    /\ asked
    /\ path_suffix(arg) = ".SQL"
    /\ is_file(arg)
    /\ verdict.schema
    /\ ~verdict.ignored

\* C4: an existing file larger than 2 MiB is ignored whether or not it is
\* schema-like; a file of 2 MiB or less, or one whose size cannot be
\* obtained, is ignored only when a rule other than the size rule applies.
C4_LargeFileRule ==
    (asked /\ is_file(arg))
        => /\ larger_than_limit(arg) => verdict.ignored
           /\ ~larger_than_limit(arg) =>
                 (verdict.ignored <=>
                    \/ path_name(arg) = output_filename
                    \/ path_name(arg) \in IGNORED_FILENAMES
                    \/ has_ignored_segment(arg)
                    \/ (~verdict.schema /\ suffix_of_arg \notin ALLOWED_CODE_EXTENSIONS))

\* a schema-like .sql file of more than 2 MiB outside ignored directories,
\* not named like the output file: ignored on its size alone
C4_Witness ==
    /\ asked
    /\ is_file(arg)
    /\ larger_than_limit(arg)
    /\ suffix_of_arg = ".sql"
    /\ verdict.schema
    /\ verdict.ignored
    /\ path_name(arg) # output_filename
    /\ ~has_ignored_segment(arg)

\* C5: a file with a bulk-data extension is kept only if it is schema-like
\* and not large; a small data.json with no schema-hint directory in its
\* path is ignored.
C5_BulkDataRule ==
    (asked /\ is_file(arg) /\ suffix_of_arg \in BULK_DATA_EXTENSIONS)
        => /\ ~verdict.ignored => (verdict.schema /\ ~larger_than_limit(arg))
           /\ ( /\ path_name(arg) = "data.json"
                /\ { lower(p) : p \in Range(arg) } \cap SCHEMA_HINT_DIRS = {} )
                 => verdict.ignored

\* a bulk-data file that is kept: small and schema-like
C5_Witness ==
    /\ asked
    /\ is_file(arg)
    /\ suffix_of_arg \in BULK_DATA_EXTENSIONS
    /\ ~verdict.ignored

\* C9: a schema-like file that is not large, has no bulk-data extension and
\* is matched by none of the output-name, ignored-name and ignored-directory
\* rules is kept, whatever its extension.
C9_SchemaExemption ==
    ( /\ asked
      /\ is_file(arg)
      /\ verdict.schema
      /\ ~larger_than_limit(arg)
      /\ suffix_of_arg \notin BULK_DATA_EXTENSIONS
      /\ path_name(arg) # output_filename
      /\ path_name(arg) \notin IGNORED_FILENAMES
      /\ ~has_ignored_segment(arg) )
        => ~verdict.ignored

\* a schema-like file with an ignored extension that is kept
C9_Witness ==
    /\ asked
    /\ is_file(arg)
    /\ verdict.schema
    /\ suffix_of_arg \in IGNORED_EXTENSIONS
    /\ ~verdict.ignored

-----------------------------------------------------------------------------
(* Properties of the tree builder and of main, checked under Spec.         *)

\* path q lies strictly below path d
below(q, d) == Len(q) > Len(d) /\ SubSeq(q, 1, Len(d)) = d

is_file_line(l) == l.mark # DIR_MARK
file_lines == SelectSeq(tree_lines, is_file_line)

\* C2: every path with an ignored-directory segment is ignored, and nothing
\* below a subdirectory of the root that is_ignored rejects is visited,
\* classified, kept, listed as schema file or rendered.
C2_Pruning ==
    /\ \A p \in DOMAIN fs : has_ignored_segment(p) => is_ignored(p, output_filename)
    /\ \A d \in DOMAIN fs :
          (pc # "prompt" /\ is_dir(d) /\ below(d, project_path) /\ is_ignored(d, output_filename))
              => \A q \in DOMAIN fs :
                    below(q, d) => /\ q \notin visited
                                   /\ q \notin classified
                                   /\ q \notin Range(files_to_dump)
                                   /\ q \notin Range(schema_files)
                                   /\ q \notin Range(line_of)

\* the walk is over, a pruned node_modules has a file below it, and a file
\* outside it was kept
C2_Witness ==
    /\ pc = "open"
    /\ files_to_dump # << >>
    /\ \E d \in DOMAIN fs :
          /\ is_dir(d)
          /\ path_name(d) = "node_modules"
          /\ d \in classified
          /\ ~has_ignored_segment(project_path)
          /\ \E q \in DOMAIN fs : below(q, d) /\ is_file(q)

\* C3: schema_files is a subsequence of files_to_dump, and the file lines of
\* the tree match files_to_dump one to one and in order, a line carrying the
\* schema mark exactly when its file is in schema_files.
C3_ResultsConsistent ==
    /\ SelectSeq(files_to_dump, LAMBDA p : p \in Range(schema_files)) = schema_files
    /\ Len(file_lines) = Len(files_to_dump)
    /\ \A i \in 1..Len(file_lines) :
          /\ file_lines[i].text = path_name(files_to_dump[i])
          /\ file_lines[i].mark = SCHEMA_MARK <=> files_to_dump[i] \in Range(schema_files)

\* a finished walk that kept a plain file and a schema file and ignored a
\* schema-like one
C3_Witness ==
    /\ pc = "open"
    /\ \E i, j \in 1..Len(file_lines) :
          file_lines[i].mark = SCHEMA_MARK /\ file_lines[j].mark = FILE_MARK
    /\ \E q \in classified :
          is_file(q) /\ looks_like_schema_file(q) /\ q \notin Range(files_to_dump)

\* C6 as stated: for the scenario tree under any root, the kept files are
\* migrations/001_init.sql and src/app.py, the schema files are
\* migrations/001_init.sql, and nothing of node_modules and no image.png is
\* in the results.
C6_Scenario ==
    (pc = "open" /\ runs = 1 /\ fs = tree_fs(project_path, ScenarioFiles))
        => /\ { relative_to(p, project_path) : p \in Range(files_to_dump) }
                 = { <<"migrations", "001_init.sql">>, <<"src", "app.py">> }
           /\ { relative_to(p, project_path) : p \in Range(schema_files) }
                 = { <<"migrations", "001_init.sql">> }
           /\ \A p \in Range(line_of) :
                 LET rel == relative_to(p, project_path)
                 IN  rel # <<"image.png">> /\ (rel # << >> => rel[1] # "node_modules")

\* C7 as stated: the file main writes is never among the kept files.
C7_ReportNeverKept ==
    pc # "prompt" => output_path \notin Range(files_to_dump)

\* C8: no section is written before the traversal has returned; the sections
\* follow files_to_dump in order, one per file; a failed read leaves its
\* section in place and the run goes on to the end, so that only a failure
\* to open the output ends a run without a report.
C8_ReadsIsolated ==
    /\ pc \in {"prompt", "walk", "open", "error"} => report = << >>
    /\ Len(report) <= Len(files_to_dump)
    /\ \A i \in 1..Len(report) :
          report[i].header = relative_to(files_to_dump[i], project_path)
    /\ pc = "dump" => Len(report) = dump_i - 1
    /\ pc = "done" => Len(report) = Len(files_to_dump)

\* a finished run in which a read failed and a later file was still read
C8_Witness ==
    /\ pc = "done"
    /\ \E i, j \in 1..Len(report) :
          i < j /\ report[i].body # "content" /\ report[j].body = "content"

\* C10 as stated: a directory's line is indented by its depth below the
\* root, and a kept file's line one level deeper than the line of the
\* directory that contains it.
C10_IndentIsDepth ==
    \A i \in 1..Len(tree_lines) :
        IF tree_lines[i].mark = DIR_MARK
        THEN tree_lines[i].indent = INDENT_WIDTH * (Len(line_of[i]) - Len(project_path))
        ELSE \A j \in 1..Len(tree_lines) :
                (tree_lines[j].mark = DIR_MARK /\ line_of[j] \o <<tree_lines[i].text>> = line_of[i])
                    => tree_lines[i].indent = tree_lines[j].indent + INDENT_WIDTH

====
